---- MODULE Spec2Model ----
(***************************************************************************)
(* Cloud Conveyor: the pipeline (cloud-conveyor-core/src/pipelining.rs),   *)
(* the state machine that drives it (state_machine.rs) and the trigger     *)
(* matcher that builds pipelines from repository events (webhook.rs).      *)
(*                                                                         *)
(* Spec: a pipeline is first built and used through its public methods;    *)
(* then StateMachine::new takes ownership of it and from there on only     *)
(* tick_machine_state touches it.                                          *)
(* MatcherSpec: an application receives repository events, one after the   *)
(* other, and event_to_pipeline turns each into at most one pipeline.      *)
(* GithubSpec: the GitHub interpreter (cloud-conveyor-github/src/lib.rs)   *)
(* turns webhook payloads into repository events.                          *)
(* FleetSpec: two state machines, each with its own pipeline, are ticked   *)
(* in any interleaving.                                                    *)
(* PerformSpec: a Build, Deploy or Teardown is started, polled and asked   *)
(* for its result the way the state machine does it.                       *)
(* BackoffSpec: recommended_wait at its real width of 64 bits.             *)
(* EqualitySpec: two boxed actions are compared and added to a pipeline.   *)
(* OrchestrationSpec: handle_web_hook_event takes a request through the    *)
(* interpreter, the application loader and the trigger matcher.            *)
(* LiveSpec: the machine of Spec, ticked again and again, when no call     *)
(* fails and every started action is eventually done.                      *)
(***************************************************************************)
EXTENDS Integers, Sequences, FiniteSets, TLC

VARIABLES
    pipeline,          \* Pipeline {pending_actions, completed_actions, action_results}
    current_action,    \* StateMachine.current_action (None before StateMachine::new)
    recommended_wait,  \* StateMachine.recommended_wait
    phase,             \* "pipeline": owned by the caller; "machine": owned by a StateMachine
    op,                \* the last operation performed, with its inputs and what it returned
    fifo,              \* history: the pending queue has been built by add_action only
    recorded,          \* history: the <<action, result>> pairs handed to complete_action
    dispatched,        \* history: the actions that became current_action, in order
    started,           \* history: the actions on which start was invoked, in order
    ever,              \* history: how many times each action entered the machine's pipeline
    injected,          \* history: how many actions get_new_work has returned so far
    in_flight,         \* history: the actions started and not yet observed done, in order
    app,               \* the Application the events are matched against (WebhookEvent.app)
    event,             \* the VcsEvent last handed to event_to_pipeline
    produced,          \* the Option<Pipeline> the last event_to_pipeline returned
    panicked,          \* the matcher has panicked (the thread is gone)
    seen,              \* history: event_to_pipeline's accumulator, initially and after
                       \* each trigger of the last event
    before,            \* history: the application as it was when the last event arrived
    payload,           \* the EventType last handed to Github::get_vcs_event
    vcs_events,        \* the Vec<VcsEvent> that call returned
    machines,          \* two StateMachines, each owning its own Pipeline
    last_tick,         \* the last tick of one of the two machines: which one, its outcome
    job,               \* a Build, Deploy or Teardown action: its kind and its result slot
    remote,            \* the status the build / deploy / teardown substrate reports for it
    call,              \* the last Perform method called on the job and what it returned
    wait_u64,          \* StateMachine.recommended_wait as a u64, in 16-bit limbs
    overflow,          \* what the last recommended_wait * 3 did: "no", "panic" or "wrap"
    left,              \* a Box<dyn Perform>, as constructed or as deserialized
    right,             \* another one
    equal,             \* what left == right returned
    deduped,           \* the pending queue after add_action(left) and add_action(right)
    request,           \* the intermediaries the last webhook request was parsed into
    records,           \* the WebhookEvents interpret_webhook_payload returned for it
    pipelines,         \* the Vec<Pipeline> handle_web_hook_event returned for it
    crashed,           \* handle_web_hook_event panicked on it
    poll_parity        \* history: the parity of the number of not-done ticks so far

vars == <<pipeline, current_action, recommended_wait, phase, op, fifo,
          recorded, dispatched, started, ever, injected, in_flight,
          app, event, produced, panicked, seen, before,
          payload, vcs_events, machines, last_tick, job, remote, call, wait_u64, overflow,
          left, right, equal, deduped, request, records, pipelines, crashed, poll_parity>>

machine_vars == <<current_action, recommended_wait, dispatched, started, ever, injected,
                  in_flight>>

matcher_vars == <<app, event, produced, panicked, seen, before>>

github_vars == <<payload, vcs_events>>

fleet_vars == <<machines, last_tick>>

perform_vars == <<job, remote, call>>

backoff_vars == <<wait_u64, overflow>>

\* the variables of the specifications other than Spec and MatcherSpec
equality_vars == <<left, right, equal, deduped>>

orchestration_vars == <<request, records, pipelines, crashed>>

live_vars == <<poll_parity>>

aux_vars == <<github_vars, fleet_vars, perform_vars, backoff_vars,
              equality_vars, orchestration_vars, live_vars>>

----------------------------------------------------------------------------
(* Bounds of the model *)

MaxPending == 3    \* no action is added by hand to a pipeline that holds this many actions
MaxHistory == 2    \* complete_action / cancel are not called by hand to make a longer history
MaxNewWork == 1    \* get_new_work returns at most this many actions in a machine's life
MaxWait == 22      \* a not-done tick is not modelled once recommended_wait exceeds this

(* Values *)

Actions == {"A", "B", "C"}          \* three distinct (value-unequal) actions
None == "None"                      \* Option::None

Success == "Success"
Failed == "Failed"
FailedAllow == "FailedAllow"
Canceled == "Canceled"
ActionResult == {Success, Failed, FailedAllow, Canceled}

START_WAIT_TIME == 10

----------------------------------------------------------------------------
(* Sequence helpers *)

RECURSIVE SeqsUpTo(_, _)
SeqsUpTo(S, n) ==
    IF n = 0 THEN {<<>>}
    ELSE LET shorter == SeqsUpTo(S, n - 1)
         IN  shorter \cup {Append(s, x) : s \in {t \in shorter : Len(t) = n - 1}, x \in S}

Range(s) == {s[i] : i \in 1..Len(s)}

Count(s, x) == Cardinality({i \in 1..Len(s) : s[i] = x})

IsPrefix(s, t) == Len(s) <= Len(t) /\ SubSeq(t, 1, Len(s)) = s

----------------------------------------------------------------------------
(* Pipeline *)

\* impl PartialEq for Box<dyn Perform>: same concrete type and equal values
box_eq(a, b) == a = b

\* Vec::contains on the pending actions
contains(s, a) == \E i \in 1..Len(s) : box_eq(s[i], a)

empty ==
    [pending_actions |-> <<>>, completed_actions |-> <<>>, action_results |-> <<>>]

\* add_action without the contains test
add_action_no_dedup(p, a) ==
    [p EXCEPT !.pending_actions = Append(@, a)]

add_action(p, a) ==
    IF ~contains(p.pending_actions, a)
    THEN [p EXCEPT !.pending_actions = Append(@, a)]
    ELSE p

\* Vec::insert(0, action)
add_immediate_action(p, a) ==
    [p EXCEPT !.pending_actions = <<a>> \o @]

\* a pop that gives nothing once a single action is left
pop_next_action_leaves_one(p) ==
    IF Len(p.pending_actions) <= 1
    THEN [pipeline |-> p, ret |-> None]
    ELSE LET n == Len(p.pending_actions)
         IN  [pipeline |-> [p EXCEPT !.pending_actions = SubSeq(@, 1, n - 1)],
              ret |-> p.pending_actions[n]]

\* Vec::pop(): removes and returns the LAST element
pop_next_action(p) ==
    IF p.pending_actions = <<>>
    THEN [pipeline |-> p, ret |-> None]
    ELSE LET n == Len(p.pending_actions)
         IN  [pipeline |-> [p EXCEPT !.pending_actions = SubSeq(@, 1, n - 1)],
              ret |-> p.pending_actions[n]]

\* complete_action that puts the entry in front of the history
complete_action_at_front(p, a, r) ==
    [p EXCEPT !.completed_actions = <<a>> \o @,
              !.action_results = <<r>> \o @]

\* complete_action that pushes the action and forgets its result
complete_action_drops_result(p, a, r) ==
    [p EXCEPT !.completed_actions = Append(@, a)]

complete_action(p, a, r) ==
    [p EXCEPT !.completed_actions = Append(@, a),
              !.action_results = Append(@, r)]

\* a cancel that stops after the first action it pops
cancel_one(p) ==
    LET popped == pop_next_action(p)
    IN  IF popped.ret = None THEN p
        ELSE complete_action(popped.pipeline, popped.ret, Canceled)

\* a cancel that records the drained actions as Failed
RECURSIVE cancel_as_failed(_)
cancel_as_failed(p) ==
    LET popped == pop_next_action(p)
    IN  IF popped.ret = None THEN p
        ELSE cancel_as_failed(complete_action(popped.pipeline, popped.ret, Failed))

\* while let Some(action) = self.pop_next_action() { self.complete_action(action, Canceled) }
RECURSIVE cancel(_)
cancel(p) ==
    LET popped == pop_next_action(p)
    IN  IF popped.ret = None THEN p
        ELSE cancel(complete_action(popped.pipeline, popped.ret, Canceled))

\* the actions a cancel of p takes off pending, in the order it takes them
RECURSIVE drained(_)
drained(p) ==
    LET popped == pop_next_action(p)
    IN  IF popped.ret = None THEN <<>>
        ELSE <<popped.ret>> \o drained(popped.pipeline)

----------------------------------------------------------------------------
(* The record of the last operation *)

\* name: the operation; arg, res: the action and the result passed in (for a tick: the
\* action polled and what get_result gave); ret: the action returned (for new and tick:
\* the action that became current); out: what a tick returned; done: what is_done
\* returned; work: what get_new_work returned; drained: the actions a cancel took off
\* pending
Op(name, arg, res, ret, out, done, work, drain) ==
    [name |-> name, arg |-> arg, res |-> res, ret |-> ret, out |-> out,
     done |-> done, work |-> work, drained |-> drain]

Call(name, arg, res, ret) == Op(name, arg, res, ret, "-", "-", <<>>, <<>>)

\* the history that follows the pending queue: built by add_action only, or empty
fifo_after(was, p) == was \/ p.pending_actions = <<>>

----------------------------------------------------------------------------
(* The trigger matcher (cloud-conveyor-core/src/webhook.rs) and the parts  *)
(* of the application it reads and writes (cloud-conveyor-core/src/lib.rs) *)

\* Branch names, tag names and patterns are sequences of characters
Digits == {"0", "1", "2", "3", "4", "5", "6", "7", "8", "9"}

\* the only pattern with a regular-expression operator that a trigger is given here
DotStar == <<".", "*">>

\* the semver expression, kept as one token
SEMVER_REGEX ==
    <<"(0|(?:[1-9]\\d*))(?:\\.(0|(?:[1-9]\\d*))(?:\\.(0|(?:[1-9]\\d*)))?(?:\\-([\\w][\\w\\.\\-_]*))?)?">>

semver == <<"s", "e", "m", "v", "e", "r">>

\* word occurs somewhere in text
IsSubstring(word, text) ==
    \E i \in 0..(Len(text) - Len(word)) : \A j \in 1..Len(word) : text[i + j] = word[j]

\* Regex::new(pattern).is_match(text): an unanchored search. ".*" matches every text.
\* The semver expression needs its first group, (0|[1-9]\d*), and nothing else, so it
\* is found exactly in the texts that hold a digit. Any other pattern used here is a
\* plain word, found where it occurs as a substring.
is_match(pattern, text) ==
    IF pattern = DotStar THEN TRUE
    ELSE IF pattern = SEMVER_REGEX THEN \E i \in 1..Len(text) : text[i] \in Digits
    ELSE IsSubstring(pattern, text)

\* Option<T> for values that are not strings
NoneOf(default) == [some |-> FALSE, value |-> default]
SomeOf(v) == [some |-> TRUE, value |-> v]

\* Option<Pipeline>::unwrap_or_default
unwrap_or_default(acc) == IF acc.some THEN acc.value ELSE empty

(* lib.rs *)

\* struct Stage; the account is given by its name
Stage(name, approval_group, account) ==
    [name |-> name, approval_group |-> approval_group, account |-> account]

\* format!("pr-{}", number)
pr_stage_name(number) ==
    CASE number = 1 -> "pr-1"
      [] number = 2 -> "pr-2"
      [] number = 3 -> "pr-3"

\* struct Application; default_account is the account default_account_index points to
Application(org, name, default, stages, triggers) ==
    [org |-> org, app |-> name, default_account |-> default, stages |-> stages,
     triggers |-> triggers]

\* Application::default_account; the account the index points to, or None
default_account(a) == a.default_account

from_pr_number_with_group(a, number) ==
    Stage(pr_stage_name(number), "Slack", default_account(a))

\* Stage::from_pr_number, when the application has a default account
from_pr_number(a, number) == Stage(pr_stage_name(number), None, default_account(a))

from_pr_number_never_panics(a) == FALSE

\* Stage::from_pr_number panics: expect() on a missing default account
from_pr_number_panics(a) == default_account(a) = None

is_for_pr_any(stage, pr_number) == TRUE

\* Stage::is_for_pr
is_for_pr(stage, pr_number) == stage.name = pr_stage_name(pr_number)

add_stage(a, stage) == [a EXCEPT !.stages = Append(@, stage)]

full_name(a) == <<a.org, a.app>>

\* enum Trigger
TriggerPr(deploy) ==
    [kind |-> "Pr", deploy |-> deploy, to |-> <<>>, from |-> NoneOf(<<>>),
     pattern |-> <<>>, stages |-> <<>>]
TriggerMerge(to, from, stages) ==
    [kind |-> "Merge", deploy |-> FALSE, to |-> to, from |-> from,
     pattern |-> <<>>, stages |-> stages]
TriggerTag(pattern, stages) ==
    [kind |-> "Tag", deploy |-> FALSE, to |-> <<>>, from |-> NoneOf(<<>>),
     pattern |-> pattern, stages |-> stages]

(* pipelining.rs: the actions the matcher creates; result is None in all of them *)

NoStage == Stage(None, None, None)

\* Build::new(sha, repo)
BuildNew(sha, repo) ==
    [kind |-> "Build", sha |-> sha, repo |-> repo, stage |-> NoStage,
     approval_group |-> None, stage_name |-> None, app_name |-> <<>>]

\* Approval { approval_group, stage_name, sha, app_name }
Approval(approval_group, stage_name, sha, app_name) ==
    [kind |-> "Approval", sha |-> sha, repo |-> None, stage |-> NoStage,
     approval_group |-> approval_group, stage_name |-> stage_name, app_name |-> app_name]

\* Deploy::new(stage, repo, sha)
DeployNew(stage, repo, sha) ==
    [kind |-> "Deploy", sha |-> sha, repo |-> repo, stage |-> stage,
     approval_group |-> None, stage_name |-> None, app_name |-> <<>>]

\* Teardown::new(stage, repo)
TeardownNew(stage, repo) ==
    [kind |-> "Teardown", sha |-> None, repo |-> repo, stage |-> stage,
     approval_group |-> None, stage_name |-> None, app_name |-> <<>>]

(* webhook.rs *)

\* enum VcsEvent
NoEvent ==
    [kind |-> "None", to_branch |-> <<>>, from_branch |-> <<>>, tag |-> <<>>,
     pr_number |-> 0, sha |-> None, merged |-> FALSE]
Merge(to_branch, from_branch, sha) ==
    [NoEvent EXCEPT !.kind = "Merge", !.to_branch = to_branch,
                    !.from_branch = from_branch, !.sha = sha]
TagPush(tag, sha) == [NoEvent EXCEPT !.kind = "TagPush", !.tag = tag, !.sha = sha]
PullRequestCreate(pr_number, sha) ==
    [NoEvent EXCEPT !.kind = "PullRequestCreate", !.pr_number = pr_number, !.sha = sha]
PullRequestUpdate(pr_number, sha) ==
    [NoEvent EXCEPT !.kind = "PullRequestUpdate", !.pr_number = pr_number, !.sha = sha]
PullRequestComplete(pr_number, merged) ==
    [NoEvent EXCEPT !.kind = "PullRequestComplete", !.pr_number = pr_number,
                    !.merged = merged]

RECURSIVE add_deploy_stages_deploy_first(_, _, _, _, _)
add_deploy_stages_deploy_first(new_pipeline, sha, deploy_stages, repo, a) ==
    IF deploy_stages = <<>> THEN new_pipeline
    ELSE LET stage == Head(deploy_stages)
             deployed == add_action(new_pipeline, DeployNew(stage, repo, sha))
             approved ==
                 IF stage.approval_group # None
                 THEN add_action(deployed,
                                 Approval(stage.approval_group, stage.name, sha, full_name(a)))
                 ELSE deployed
         IN  add_deploy_stages_deploy_first(approved, sha, Tail(deploy_stages), repo, a)

\* for stage in deploy_stages { approval, if the stage has a group; then deploy }
RECURSIVE add_deploy_stages(_, _, _, _, _)
add_deploy_stages(new_pipeline, sha, deploy_stages, repo, a) ==
    IF deploy_stages = <<>> THEN new_pipeline
    ELSE LET stage == Head(deploy_stages)
             approved ==
                 IF stage.approval_group # None
                 THEN add_action(new_pipeline,
                                 Approval(stage.approval_group, stage.name, sha, full_name(a)))
                 ELSE new_pipeline
             deployed == add_action(approved, DeployNew(stage, repo, sha))
         IN  add_deploy_stages(deployed, sha, Tail(deploy_stages), repo, a)

\* Build::new is called with (event.repo, sha)
add_build_and_deploy_stages(acc, sha, deploy_stages, repo, a) ==
    LET build_action == BuildNew(repo, sha)
        new_pipeline == add_action(unwrap_or_default(acc), build_action)
    IN  add_deploy_stages(new_pipeline, sha, deploy_stages, repo, a)

\* app.stages.iter().filter(|s| stages.contains(&s.name)).cloned().collect()
stages_named(a, stages) ==
    LET named(s) == s.name \in Range(stages) IN SelectSeq(a.stages, named)

find_pr_stage_never(a, pr_number) == NoneOf(NoStage)

\* app.stages.iter().find(|s| s.is_for_pr(pr_number)): the first such stage, if any
find_pr_stage(a, pr_number) ==
    LET for_pr(s) == is_for_pr(s, pr_number)
        found == SelectSeq(a.stages, for_pr)
    IN  IF found = <<>> THEN NoneOf(NoStage) ELSE SomeOf(Head(found))

\* The handlers take and return the matcher's running state: the accumulated
\* Option<Pipeline>, the application (event.app) and whether the thread has panicked.

handle_tag_trigger(m, e, repo, pattern, stages) ==
    IF e.kind = "TagPush"
    THEN LET regex == IF pattern = semver THEN SEMVER_REGEX ELSE pattern
         IN  IF ~is_match(regex, e.tag) THEN m
             ELSE [m EXCEPT !.result =
                      SomeOf(add_build_and_deploy_stages(m.result, e.sha,
                                 stages_named(m.app, stages), repo, m.app))]
    ELSE m

handle_merge_trigger_ignores_from(m, e, repo, to_regex, from_regex, stages) ==
    IF e.kind = "Merge" /\ is_match(to_regex, e.to_branch)
    THEN [m EXCEPT !.result =
             SomeOf(add_build_and_deploy_stages(m.result, e.sha,
                        stages_named(m.app, stages), repo, m.app))]
    ELSE m

handle_merge_trigger(m, e, repo, to_regex, from_regex, stages) ==
    IF e.kind = "Merge"
    THEN IF ~is_match(to_regex, e.to_branch) THEN m
         ELSE IF ~is_match(IF from_regex.some THEN from_regex.value ELSE DotStar,
                           e.from_branch) THEN m
         ELSE [m EXCEPT !.result =
                  SomeOf(add_build_and_deploy_stages(m.result, e.sha,
                             stages_named(m.app, stages), repo, m.app))]
    ELSE m

handle_pr_trigger(m, should_deploy, e, repo) ==
    CASE e.kind = "PullRequestCreate" ->
            IF should_deploy
            THEN IF from_pr_number_panics(m.app)
                 THEN [m EXCEPT !.panicked = TRUE]
                 ELSE LET new_stage == from_pr_number(m.app, e.pr_number)
                          a == add_stage(m.app, new_stage)
                      IN  [m EXCEPT !.app = a,
                                    !.result = SomeOf(add_build_and_deploy_stages(
                                                   m.result, e.sha, <<new_stage>>, repo, a))]
            ELSE [m EXCEPT !.result = SomeOf(add_build_and_deploy_stages(
                                          m.result, e.sha, <<>>, repo, m.app))]
      [] e.kind = "PullRequestComplete" ->
            LET stage == find_pr_stage(m.app, e.pr_number)
            IN  IF stage.some
                THEN [m EXCEPT !.result =
                         SomeOf(add_action(unwrap_or_default(m.result),
                                           TeardownNew(stage.value, repo)))]
                ELSE m
      [] e.kind = "PullRequestUpdate" ->
            LET stage == find_pr_stage(m.app, e.pr_number)
            IN  [m EXCEPT !.result = SomeOf(add_build_and_deploy_stages(
                                         m.result, e.sha,
                                         IF stage.some THEN <<stage.value>> ELSE <<>>,
                                         repo, m.app))]
      [] OTHER -> m

\* the body of the loop of event_to_pipeline: match trigger { ... }
handle_trigger(m, trigger, e, repo) ==
    CASE trigger.kind = "Pr" -> handle_pr_trigger(m, trigger.deploy, e, repo)
      [] trigger.kind = "Merge" ->
            handle_merge_trigger(m, e, repo, trigger.to, trigger.from, trigger.stages)
      [] trigger.kind = "Tag" ->
            handle_tag_trigger(m, e, repo, trigger.pattern, trigger.stages)

\* for trigger in event.app.triggers.clone() { result = handle_..._trigger(result, ...) };
\* seen collects the accumulator as it is before the first trigger and after each one.
\* A panic ends the loop.
RECURSIVE fold_triggers(_, _, _, _)
fold_triggers(m, triggers, e, repo) ==
    IF triggers = <<>> \/ m.panicked THEN m
    ELSE LET n == handle_trigger(m, Head(triggers), e, repo)
         IN  fold_triggers([n EXCEPT !.seen = IF n.panicked THEN @ ELSE Append(@, n.result)],
                           Tail(triggers), e, repo)

event_to_pipeline(a, e, repo) ==
    fold_triggers([result |-> NoneOf(empty), app |-> a, panicked |-> FALSE,
                   seen |-> <<NoneOf(empty)>>],
                  a.triggers, e, repo)

----------------------------------------------------------------------------
(* The variables of the other specifications while they are not in use *)

GithubIdle ==
    /\ payload = [type |-> "None"]
    /\ vcs_events = <<>>

FleetIdle ==
    /\ machines = <<>>
    /\ last_tick = [machine |-> 0]

PerformIdle ==
    /\ job = [kind |-> "None"]
    /\ remote = "None"
    /\ call = [name |-> "None"]

BackoffIdle ==
    /\ wait_u64 = <<>>
    /\ overflow = "no"

EqualityIdle ==
    /\ left = [kind |-> "None"]
    /\ right = [kind |-> "None"]
    /\ equal = TRUE
    /\ deduped = <<>>

OrchestrationIdle ==
    /\ request = <<>>
    /\ records = <<>>
    /\ pipelines = <<>>
    /\ crashed = FALSE

LiveIdle == poll_parity = 0

AuxIdle ==
    /\ GithubIdle /\ FleetIdle /\ PerformIdle /\ BackoffIdle
    /\ EqualityIdle /\ OrchestrationIdle /\ LiveIdle

----------------------------------------------------------------------------
(* State after Pipeline::empty() *)

Init ==
    /\ pipeline = empty
    /\ current_action = None
    /\ recommended_wait = START_WAIT_TIME
    /\ phase = "pipeline"
    /\ op = Call("empty", None, None, None)
    /\ fifo = TRUE
    /\ recorded = <<>>
    /\ dispatched = <<>>
    /\ started = <<>>
    /\ ever = [a \in Actions |-> 0]
    /\ injected = 0
    /\ in_flight = <<>>
    /\ app = Application("org", "app", None, <<>>, <<>>)
    /\ event = NoEvent
    /\ produced = NoneOf(empty)
    /\ panicked = FALSE
    /\ seen = <<>>
    /\ before = app
    /\ AuxIdle

----------------------------------------------------------------------------
(* The pipeline's public methods, called by the owner of the pipeline *)

AddAction(a) ==
    /\ phase = "pipeline"
    /\ Len(pipeline.pending_actions) + Len(pipeline.completed_actions) < MaxPending
    /\ pipeline' = add_action(pipeline, a)
    /\ op' = Call("add_action", a, None, None)
    /\ UNCHANGED <<phase, fifo, recorded, machine_vars>>
    /\ UNCHANGED matcher_vars
    /\ UNCHANGED aux_vars

AddImmediateAction(a) ==
    /\ phase = "pipeline"
    /\ Len(pipeline.pending_actions) + Len(pipeline.completed_actions) < MaxPending
    /\ pipeline' = add_immediate_action(pipeline, a)
    /\ op' = Call("add_immediate_action", a, None, None)
    /\ fifo' = FALSE
    /\ UNCHANGED <<phase, recorded, machine_vars>>
    /\ UNCHANGED matcher_vars
    /\ UNCHANGED aux_vars

PopNextAction ==
    /\ phase = "pipeline"
    /\ LET popped == pop_next_action(pipeline)
       IN  /\ pipeline' = popped.pipeline
           /\ op' = Call("pop_next_action", None, None, popped.ret)
           /\ fifo' = fifo_after(fifo, popped.pipeline)
    /\ UNCHANGED <<phase, recorded, machine_vars>>
    /\ UNCHANGED matcher_vars
    /\ UNCHANGED aux_vars

CompleteAction(a, r) ==
    /\ phase = "pipeline"
    /\ Len(pipeline.completed_actions) < MaxHistory
    /\ Len(pipeline.pending_actions) + Len(pipeline.completed_actions) < MaxPending
    /\ pipeline' = complete_action(pipeline, a, r)
    /\ op' = Call("complete_action", a, r, None)
    /\ recorded' = Append(recorded, <<a, r>>)
    /\ UNCHANGED <<phase, fifo, machine_vars>>
    /\ UNCHANGED matcher_vars
    /\ UNCHANGED aux_vars

Cancel ==
    /\ phase = "pipeline"
    /\ Len(pipeline.completed_actions) + Len(pipeline.pending_actions) <= MaxHistory
    /\ pipeline' = cancel(pipeline)
    /\ op' = Op("cancel", None, None, None, "-", "-", <<>>, drained(pipeline))
    /\ recorded' = recorded \o [i \in 1..Len(drained(pipeline)) |->
                                   <<drained(pipeline)[i], Canceled>>]
    /\ fifo' = TRUE
    /\ UNCHANGED <<phase, machine_vars>>
    /\ UNCHANGED matcher_vars
    /\ UNCHANGED aux_vars

----------------------------------------------------------------------------
(* State machine *)

\* StateMachine::new(pipeline): takes the pipeline and pops its first action.
\* The machine is given a pipeline that has not been run (no history yet), as the
\* pipelines the webhook matcher builds are.
StateMachineNew ==
    /\ phase = "pipeline"
    /\ pipeline.completed_actions = <<>>
    /\ pipeline.action_results = <<>>
    /\ phase' = "machine"
    /\ LET popped == pop_next_action(pipeline)
       IN  /\ pipeline' = popped.pipeline
           /\ current_action' = popped.ret
           /\ recommended_wait' = START_WAIT_TIME
           /\ op' = Call("new", None, None, popped.ret)
           /\ dispatched' = IF popped.ret = None THEN <<>> ELSE <<popped.ret>>
           /\ fifo' = fifo
    /\ started' = <<>>
    /\ ever' = [a \in Actions |-> Count(pipeline.pending_actions, a)]
    /\ injected' = 0
    /\ in_flight' = <<>>
    /\ UNCHANGED recorded
    /\ UNCHANGED matcher_vars
    /\ UNCHANGED aux_vars

\* tick_machine_state, no current action: return Ok(true)
TickTerminal ==
    /\ phase = "machine"
    /\ current_action = None
    /\ op' = Op("tick", None, None, None, "Ok(true)", "-", <<>>, <<>>)
    /\ UNCHANGED <<pipeline, phase, fifo, recorded, machine_vars>>
    /\ UNCHANGED matcher_vars
    /\ UNCHANGED aux_vars

current_after_is_done_error_dropped(cur) == None

\* the current action after is_done returned an error: the ? operator returns
\* before any assignment, so the action stays the current one
current_after_is_done_error(cur) == cur

\* tick_machine_state, is_done returns an error: the ? operator returns it
TickIsDoneError ==
    /\ phase = "machine"
    /\ current_action # None
    /\ op' = Op("tick", current_action, None, current_action, "Err", "err", <<>>, <<>>)
    /\ current_action' = current_after_is_done_error(current_action)
    /\ UNCHANGED <<pipeline, phase, fifo, recorded, recommended_wait, dispatched,
                   started, ever, injected, in_flight>>
    /\ UNCHANGED matcher_vars
    /\ UNCHANGED aux_vars

next_wait_double(wait) == wait * 2

\* recommended_wait * 3 / 2 on a u64
next_wait(wait) == (wait * 3) \div 2

current_after_not_done_taken(cur) == None

\* the current action after is_done returned Ok(false): the tick returns Ok(false)
\* right after updating the wait, the action was only borrowed for the call
current_after_not_done(cur) == cur

\* tick_machine_state, is_done returns Ok(false). recommended_wait is a u64; MaxWait
\* keeps recommended_wait * 3 far below 2^64, so the product is the exact one
TickNotDone ==
    /\ phase = "machine"
    /\ current_action # None
    /\ recommended_wait <= MaxWait
    /\ recommended_wait' = next_wait(recommended_wait)
    /\ current_action' = current_after_not_done(current_action)
    /\ op' = Op("tick", current_action, None, current_action, "Ok(false)", "false",
                <<>>, <<>>)
    /\ UNCHANGED <<pipeline, phase, fifo, recorded,
                   dispatched, started, ever, injected, in_flight>>
    /\ UNCHANGED matcher_vars
    /\ UNCHANGED aux_vars

\* let should_cancel_pending_actions = match result { ... }
should_cancel_pending_actions(result) ==
    CASE result = Success -> FALSE
      [] result = FailedAllow -> FALSE
      [] result = Failed -> TRUE
      [] result = Canceled -> TRUE

\* for action in actions { self.pipeline.add_immediate_action(action) }
RECURSIVE push_new_work(_, _)
push_new_work(p, work) ==
    IF work = <<>> THEN p
    ELSE push_new_work(add_immediate_action(p, Head(work)), Tail(work))

action_to_start_front(popped) ==
    IF popped.pipeline.pending_actions # <<>>
    THEN Head(popped.pipeline.pending_actions) ELSE popped.ret

\* if let Some(action) = self.current_action.as_mut() { ... action.start(context) }:
\* the action start is invoked on is the one just made current
action_to_start(popped) == popped.ret

\* an action stops being in flight when is_done is observed true for it
RECURSIVE observed_done(_, _)
observed_done(flight, a) ==
    IF flight = <<>> THEN <<>>
    ELSE IF Head(flight) = a THEN Tail(flight)
    ELSE <<Head(flight)>> \o observed_done(Tail(flight), a)

\* tick_machine_state, is_done returns Ok(true): the current action yields `result`,
\* get_new_work returns `work` (<<>>: None or no actions), and the start of the
\* next action succeeds or not
TickDone(result, work, start_ok) ==
    /\ phase = "machine"
    /\ current_action # None
    /\ injected + Len(work) <= MaxNewWork
    /\ LET canceled == IF should_cancel_pending_actions(result)
                       THEN cancel(pipeline) ELSE pipeline
           pushed == push_new_work(canceled, work)
           popped == pop_next_action(pushed)
           has_remaining_actions == popped.ret # None
       IN  /\ pipeline' = popped.pipeline
           /\ current_action' = popped.ret
           /\ recommended_wait' = IF has_remaining_actions
                                  THEN START_WAIT_TIME ELSE recommended_wait
           /\ (has_remaining_actions \/ start_ok)
           /\ started' = IF has_remaining_actions
                         THEN Append(started, action_to_start(popped)) ELSE started
           /\ in_flight' = IF has_remaining_actions
                           THEN Append(observed_done(in_flight, current_action),
                                       action_to_start(popped))
                           ELSE observed_done(in_flight, current_action)
           /\ dispatched' = IF has_remaining_actions
                            THEN Append(dispatched, popped.ret) ELSE dispatched
           /\ op' = Op("tick", current_action, result, popped.ret,
                       IF ~has_remaining_actions THEN "Ok(false)"
                       ELSE IF start_ok THEN "Ok(true)" ELSE "Err",
                       "true", work,
                       IF should_cancel_pending_actions(result)
                       THEN drained(pipeline) ELSE <<>>)
           /\ recorded' =
                IF should_cancel_pending_actions(result)
                THEN recorded \o [i \in 1..Len(drained(pipeline)) |->
                                     <<drained(pipeline)[i], Canceled>>]
                ELSE recorded
           /\ fifo' = ((fifo_after(fifo, canceled) /\ work = <<>>)
                       \/ popped.pipeline.pending_actions = <<>>)
    /\ ever' = [a \in Actions |-> ever[a] + Count(work, a)]
    /\ injected' = injected + Len(work)
    /\ UNCHANGED phase
    /\ UNCHANGED matcher_vars
    /\ UNCHANGED aux_vars

----------------------------------------------------------------------------

Next ==
    \/ \E a \in Actions : AddAction(a)
    \/ \E a \in Actions : AddImmediateAction(a)
    \/ PopNextAction
    \/ \E a \in Actions, r \in ActionResult : CompleteAction(a, r)
    \/ Cancel
    \/ StateMachineNew
    \/ TickTerminal
    \/ TickIsDoneError
    \/ TickNotDone
    \/ \E result \in ActionResult, work \in SeqsUpTo(Actions, MaxNewWork),
          start_ok \in BOOLEAN : TickDone(result, work, start_ok)

Spec == Init /\ [][Next]_vars

----------------------------------------------------------------------------
(* The matcher at work: an application, as loaded from its configuration, *)
(* receives events                                                         *)

MaxTriggers == 2        \* the application has at most this many triggers
MaxConfigStages == 2    \* the configuration defines at most this many stages
MaxStages == 3          \* events are not modelled once they make the stage list longer

Repo == "git@github.com:org/app.git"
Sha == "abc"
PrNumbers == {1, 2}

main == <<"m", "a", "i", "n">>
dev == <<"d", "e", "v">>
feat == <<"f", "e", "a", "t">>
fix == <<"f", "i", "x">>
Tags == {<<"1", ".", "2", ".", "3">>, <<"v", "1">>, <<"r", "c">>}

\* stages a configuration file can define; a stage with an explicit account needs no
\* default account, and nothing reserves the names pr-N
ConfigStages ==
    {Stage("dev", None, "other"), Stage("prod", "Slack", "other"),
     Stage("pr-1", None, "other")}

TriggerSet ==
    {TriggerPr(TRUE), TriggerPr(FALSE),
     TriggerMerge(main, NoneOf(<<>>), <<"prod", "dev">>),
     TriggerMerge(main, SomeOf(feat), <<"dev">>),
     TriggerTag(semver, <<"prod">>),
     TriggerTag(<<"v">>, <<"qa", "dev">>)}

Events ==
    {Merge(to, from, Sha) : to \in {main, dev}, from \in {feat, fix}}
    \cup {TagPush(tag, Sha) : tag \in Tags}
    \cup {PullRequestCreate(n, Sha) : n \in PrNumbers}
    \cup {PullRequestUpdate(n, Sha) : n \in PrNumbers}
    \cup {PullRequestComplete(n, merged) : n \in PrNumbers, merged \in BOOLEAN}

NoDuplicates(s) == \A i, j \in 1..Len(s) : i # j => s[i] # s[j]

MatcherInit ==
    /\ pipeline = empty
    /\ current_action = None
    /\ recommended_wait = START_WAIT_TIME
    /\ phase = "matcher"
    /\ op = Call("empty", None, None, None)
    /\ fifo = TRUE
    /\ recorded = <<>>
    /\ dispatched = <<>>
    /\ started = <<>>
    /\ ever = [a \in Actions |-> 0]
    /\ injected = 0
    /\ in_flight = <<>>
    /\ \E default \in {None, "default"},
          stages \in {s \in SeqsUpTo(ConfigStages, MaxConfigStages) : NoDuplicates(s)},
          triggers \in SeqsUpTo(TriggerSet, MaxTriggers) :
          app = Application("org", "app", default, stages, triggers)
    /\ event = NoEvent
    /\ produced = NoneOf(empty)
    /\ panicked = FALSE
    /\ seen = <<>>
    /\ before = app
    /\ AuxIdle

\* event_to_pipeline(&mut WebhookEvent { event: e, app, repo })
EventToPipeline(e) ==
    /\ phase = "matcher"
    /\ ~panicked
    /\ \E m \in {event_to_pipeline(app, e, Repo)} :
           /\ Len(m.app.stages) <= MaxStages
           /\ app' = m.app
           /\ event' = e
           /\ produced' = IF m.panicked THEN NoneOf(empty) ELSE m.result
           /\ panicked' = m.panicked
           /\ seen' = m.seen
           /\ before' = app
    /\ UNCHANGED <<pipeline, phase, op, fifo, recorded, machine_vars>>
    /\ UNCHANGED aux_vars

MatcherNext == \E e \in Events : EventToPipeline(e)

MatcherSpec == MatcherInit /\ [][MatcherNext]_vars

----------------------------------------------------------------------------
(* Types *)

TypeOK ==
    /\ pipeline.pending_actions \in Seq(Actions)
    /\ pipeline.completed_actions \in Seq(Actions)
    /\ pipeline.action_results \in Seq(ActionResult)
    /\ current_action \in Actions \cup {None}
    /\ recommended_wait \in Nat
    /\ phase \in {"pipeline", "machine"}
    /\ fifo \in BOOLEAN
    /\ injected \in 0..MaxNewWork
    /\ in_flight \in SeqsUpTo(Actions, 2)

----------------------------------------------------------------------------
(* Notions the properties below are stated with *)

\* the <<action, result>> entries q's history holds beyond those of p
Appended(p, q) ==
    [i \in 1..(Len(q.completed_actions) - Len(p.completed_actions)) |->
        <<q.completed_actions[Len(p.completed_actions) + i],
          q.action_results[Len(p.completed_actions) + i]>>]

\* q's history starts with all of p's history
KeepsHistory(p, q) ==
    /\ IsPrefix(p.completed_actions, q.completed_actions)
    /\ IsPrefix(p.action_results, q.action_results)

\* the step is a tick in which is_done returned true
DoneTick == op'.name = "tick" /\ op'.done = "true"

\* the machine has no current action and nothing pending
Terminal ==
    /\ phase = "machine"
    /\ current_action = None
    /\ pipeline.pending_actions = <<>>

----------------------------------------------------------------------------
(* C1 - C5 *)

\* C1: a pending queue built by add_action alone hands its actions out in the order
\* they were added: pop_next_action, StateMachine::new and an advancing tick that
\* neither cancels nor receives new work take the earliest-added pending action.
C1_EarliestAddedIsNext ==
    [][(/\ fifo
        /\ pipeline.pending_actions # <<>>
        /\ \/ op'.name \in {"pop_next_action", "new"}
           \/ DoneTick /\ op'.work = <<>> /\ ~should_cancel_pending_actions(op'.res))
       => op'.ret = Head(pipeline.pending_actions)]_vars

\* C2: add_immediate_action(a) followed immediately by pop_next_action() returns a.
C2_ImmediateIsPoppedNext ==
    [][(op.name = "add_immediate_action" /\ op'.name = "pop_next_action")
       => op'.ret = op.arg]_vars

\* C3: a tick that observes Failed (and receives no new work) leaves pending empty,
\* records every action that was pending as Canceled and the failed action as Failed,
\* and leaves the machine terminal.
C3_FailedCancelsAndRecords ==
    [][(DoneTick /\ op'.res = Failed /\ op'.work = <<>>)
       => /\ pipeline'.pending_actions = <<>>
          /\ current_action' = None
          /\ KeepsHistory(pipeline, pipeline')
          /\ \E i \in DOMAIN Appended(pipeline, pipeline') :
                Appended(pipeline, pipeline')[i] = <<current_action, Failed>>
          /\ \A a \in Range(pipeline.pending_actions) :
                \E i \in DOMAIN Appended(pipeline, pipeline') :
                   Appended(pipeline, pipeline')[i] = <<a, Canceled>>]_vars

\* C4: when the machine is terminal, every action that was ever in its pipeline is in
\* completed exactly once for each time it entered the pipeline.
C4_EveryActionCompletedOnce ==
    Terminal => \A a \in Actions : Count(pipeline.completed_actions, a) = ever[a]

\* C5: no action is started more often than it became current, and once the machine has
\* no current action every action that became current has been started exactly once.
C5_StartedOncePerDispatch ==
    /\ \A a \in Actions : Count(started, a) <= Count(dispatched, a)
    /\ (phase = "machine" /\ current_action = None)
          => \A a \in Actions : Count(started, a) = Count(dispatched, a)

----------------------------------------------------------------------------
(* C6 - C10 *)

\* no entry other than Canceled stands after a Canceled entry
CanceledIsSuffix(results) ==
    \A i, j \in 1..Len(results) :
        (i < j /\ results[i] = Canceled) => results[j] = Canceled

\* C6 (as claimed): in every reachable state of a pipeline and of a state machine the
\* Canceled entries of the results history form a suffix.
C6_CanceledFormSuffix == CanceledIsSuffix(pipeline.action_results)

\* C6 (amended): once a Canceled result is recorded, neither cancel() nor a tick of the
\* state machine appends an entry that is not Canceled after it (so they keep the
\* Canceled entries a suffix); only a direct complete_action can.
C6_OnlyCompleteActionBreaksSuffix ==
    [][(/\ \E i \in 1..Len(pipeline.action_results) :
              pipeline.action_results[i] = Canceled
        /\ op'.name # "complete_action")
       => /\ KeepsHistory(pipeline, pipeline')
          /\ \A i \in DOMAIN Appended(pipeline, pipeline') :
                Appended(pipeline, pipeline')[i][2] = Canceled]_vars

\* C6 witness: a cancel has appended entries to a history that already began with a
\* Canceled entry.
C6_Witness ==
    /\ op.name = "cancel"
    /\ op.drained # <<>>
    /\ Len(pipeline.action_results) > Len(op.drained)
    /\ pipeline.action_results[1] = Canceled

\* C7: completed and results have the same length, and entry i of results is the result
\* that was recorded together with entry i of completed.
C7_HistoryAligned ==
    /\ Len(pipeline.completed_actions) = Len(pipeline.action_results)
    /\ Len(pipeline.completed_actions) = Len(recorded)
    /\ \A i \in 1..Len(recorded) :
          /\ i \in DOMAIN pipeline.completed_actions
          /\ i \in DOMAIN pipeline.action_results
          /\ recorded[i] = <<pipeline.completed_actions[i], pipeline.action_results[i]>>

\* C7 witness: a history written by complete_action and then by cancel.
C7_Witness ==
    /\ op.name = "cancel"
    /\ op.drained # <<>>
    /\ Len(pipeline.action_results) > Len(op.drained)
    /\ pipeline.action_results[1] # Canceled

\* C8: add_action of an action equal to one already pending leaves the pipeline
\* unchanged (so add_action(a).add_action(a) holds a once), and add_action always leaves
\* its action pending.
C8_AddActionIdempotent ==
    [][op'.name = "add_action"
       => /\ contains(pipeline.pending_actions, op'.arg) => pipeline' = pipeline
          /\ (op.name = "add_action" /\ op.arg = op'.arg) => pipeline' = pipeline
          /\ contains(pipeline'.pending_actions, op'.arg)]_vars

\* C8 witness: add_action(a) has just been called with a already pending: a is pending
\* once and is not the last entry, as an appended action would be.
C8_Witness ==
    /\ op.name = "add_action"
    /\ Count(pipeline.pending_actions, op.arg) = 1
    /\ pipeline.pending_actions[Len(pipeline.pending_actions)] # op.arg

\* C9: after cancel() pending is empty and pop_next_action returns none, each action
\* that was pending has been appended to completed with Canceled, and the entries the
\* history already held are unchanged.
C9_CancelDrainsPending ==
    [][op'.name = "cancel"
       => /\ pipeline'.pending_actions = <<>>
          /\ pop_next_action(pipeline').ret = None
          /\ KeepsHistory(pipeline, pipeline')
          /\ Len(Appended(pipeline, pipeline')) = Len(pipeline.pending_actions)
          /\ \A a \in Actions :
                Count(Appended(pipeline, pipeline'), <<a, Canceled>>)
                   = Count(pipeline.pending_actions, a)]_vars

\* C9 witness: a cancel has drained a non-empty pending queue into a history that
\* already held an entry.
C9_Witness ==
    /\ op.name = "cancel"
    /\ op.drained # <<>>
    /\ Len(pipeline.completed_actions) > Len(op.drained)
    /\ pipeline.pending_actions = <<>>

\* C10: a tick that observes Success or FailedAllow (and receives no new work) cancels
\* no pending action, keeps the contents and order of pending, and dispatches the next
\* pending action: the front of pending becomes current and is started, the rest stays
\* pending.
C10_SuccessProceeds ==
    [][(DoneTick /\ op'.res \in {Success, FailedAllow} /\ op'.work = <<>>)
       => /\ KeepsHistory(pipeline, pipeline')
          /\ \A i \in DOMAIN Appended(pipeline, pipeline') :
                Appended(pipeline, pipeline')[i][2] # Canceled
          /\ IF pipeline.pending_actions = <<>>
             THEN current_action' = None /\ pipeline'.pending_actions = <<>>
             ELSE /\ current_action' = Head(pipeline.pending_actions)
                  /\ pipeline'.pending_actions = Tail(pipeline.pending_actions)
                  /\ started' = Append(started, current_action')]_vars

----------------------------------------------------------------------------
(* C11 - C13 *)

\* C11: at most one action is in flight per state machine: the actions that have been
\* started and not yet observed done are at most one, and it is the current action.
C11_AtMostOneInFlight ==
    /\ Len(in_flight) <= 1
    /\ \A i \in 1..Len(in_flight) : in_flight[i] = current_action

\* C11 witness: a second action is in flight after an earlier one was started and
\* observed done.
C11_Witness ==
    /\ phase = "machine"
    /\ Len(started) >= 2
    /\ in_flight = <<current_action>>

\* C12: the actions get_new_work returns are dispatched before any action that was
\* already pending and in the order returned: the tick that receives new work makes the
\* first returned action current, and the action to become current after it is the
\* second returned one or, when there is none, the first action that was pending.
C12_NewWorkDispatchedFirst ==
    [][(DoneTick /\ op'.work # <<>>)
       => LET still_pending == IF should_cancel_pending_actions(op'.res)
                               THEN <<>> ELSE pipeline.pending_actions
              expected == op'.work \o still_pending
          IN  /\ current_action' = expected[1]
              /\ Len(expected) > 1 => pop_next_action(pipeline').ret = expected[2]]_vars

\* C13: recommended_wait starts at 10, is replaced by recommended_wait * 3 / 2 in integer
\* arithmetic (10, 15, 22, 33, ...) on every tick in which the current action is not
\* done, and is reset to 10 whenever a new action is dispatched.
C13_WaitSchedule ==
    [][/\ op'.name = "new" => recommended_wait' = 10
       /\ (op'.name = "tick" /\ op'.done = "false")
             => recommended_wait' = (recommended_wait * 3) \div 2
       /\ (DoneTick /\ current_action' # None) => recommended_wait' = 10]_vars

\* C13 witness: the second action of a machine has been dispatched, which reset the
\* wait, and three not-done ticks have since taken it through 15 and 22 to 33.
C13_Witness ==
    /\ op.name = "tick"
    /\ op.done = "false"
    /\ Len(dispatched) >= 2
    /\ recommended_wait = 33

----------------------------------------------------------------------------
(* Notions the matcher's properties are stated with *)

\* the pending actions of the pipeline an accumulator holds, none when it holds none
Pending(acc) == IF acc.some THEN acc.value.pending_actions ELSE <<>>

\* the kinds of a sequence of actions
Kinds(s) == [i \in 1..Len(s) |-> s[i].kind]

\* the names of the stages deployed by a sequence of actions, in order
DeployedNames(s) ==
    LET is_deploy(x) == x.kind = "Deploy"
        deploys == SelectSeq(s, is_deploy)
    IN  [i \in 1..Len(deploys) |-> deploys[i].stage.name]

\* the application had a stage for the pull request when the event arrived
HadPrStage(n) == \E i \in 1..Len(before.stages) : before.stages[i].name = pr_stage_name(n)

----------------------------------------------------------------------------
(* C14 - C20 *)

\* C14: in the pending order of every pipeline the matcher produces, a Build precedes
\* every Deploy, and the Deploy of a stage that has an approval group is preceded by the
\* Approval of that stage with that group; the tag 1.2.3 on a semver trigger to prod,
\* which has a Slack group, gives exactly [Build, Approval(prod), Deploy(prod)].
C14_BuildAndApprovalPrecedeDeploy ==
    LET p == Pending(produced)
    IN  /\ \A j \in 1..Len(p) :
              p[j].kind = "Deploy"
              => /\ \E i \in 1..(j - 1) : p[i].kind = "Build"
                 /\ \A i \in 1..Len(p) : p[i].kind = "Build" => i < j
                 /\ p[j].stage.approval_group # None
                    => \E i \in 1..(j - 1) :
                          /\ p[i].kind = "Approval"
                          /\ p[i].stage_name = p[j].stage.name
                          /\ p[i].approval_group = p[j].stage.approval_group
                          /\ p[i].sha = p[j].sha
        /\ (/\ event = TagPush(<<"1", ".", "2", ".", "3">>, Sha)
            /\ before.triggers = <<TriggerTag(semver, <<"prod">>)>>
            /\ \E i \in 1..Len(before.stages) : before.stages[i].name = "prod")
           => /\ Kinds(p) = <<"Build", "Approval", "Deploy">>
              /\ p[2] = Approval("Slack", "prod", Sha, full_name(before))
              /\ p[3] = DeployNew(Stage("prod", "Slack", "other"), Repo, Sha)

\* C14 witness: the tag 1.2.3 has met a semver trigger to prod and produced a pipeline
\* with an Approval and a Deploy.
C14_Witness ==
    /\ event = TagPush(<<"1", ".", "2", ".", "3">>, Sha)
    /\ before.triggers = <<TriggerTag(semver, <<"prod">>)>>
    /\ Kinds(Pending(produced)) = <<"Build", "Approval", "Deploy">>

\* C15: a matching Merge or Tag trigger deploys exactly those of its stage names that
\* name a stage of the application, in the order the trigger lists them, whatever the
\* order of the application's stage list (stated for the first trigger of an event that
\* contributes, whose Deploys are therefore all its own).
C15_DeploysInTriggerOrder ==
    \A i \in 1..(Len(seen) - 1) :
       LET trigger == before.triggers[i]
           resolves(name) == \E k \in 1..Len(before.stages) : before.stages[k].name = name
       IN  (trigger.kind \in {"Merge", "Tag"} /\ ~seen[i].some /\ seen[i + 1].some)
           => DeployedNames(Pending(seen[i + 1])) = SelectSeq(trigger.stages, resolves)

\* C16: PullRequestCreate{pr_number: N, sha} on an application with a default account
\* and a Pr{deploy: true} trigger appends to the application's stages a stage named pr-N
\* with the default account and no approval group, and the pipeline's pending is
\* [Build, Deploy{stage: pr-N, sha}] (stated for applications with one such trigger).
C16_PrCreateFabricatesStage ==
    (/\ event.kind = "PullRequestCreate"
     /\ before.default_account # None
     /\ Count(before.triggers, TriggerPr(TRUE)) = 1)
    => LET new_stage == Stage(pr_stage_name(event.pr_number), None, before.default_account)
       IN  /\ ~panicked
           /\ app.stages = Append(before.stages, new_stage)
           /\ Kinds(Pending(produced)) = <<"Build", "Deploy">>
           /\ Pending(produced)[2] = DeployNew(new_stage, Repo, event.sha)

\* C16 witness: a pull request was created on an application with a default account and
\* one Pr{deploy: true} trigger; a stage was appended and a pipeline produced.
C16_Witness ==
    /\ event.kind = "PullRequestCreate"
    /\ before.default_account # None
    /\ Count(before.triggers, TriggerPr(TRUE)) = 1
    /\ Len(app.stages) = Len(before.stages) + 1
    /\ produced.some

\* C17: a Pr{deploy: false} trigger never enqueues a Deploy on PullRequestCreate or
\* PullRequestUpdate, whatever stages the application holds: the accumulated pipeline
\* has the same Deploys after such a trigger as before it.
C17_DeployFalseNeverDeploys ==
    event.kind \in {"PullRequestCreate", "PullRequestUpdate"}
    => \A i \in 1..(Len(seen) - 1) :
          before.triggers[i] = TriggerPr(FALSE)
          => DeployedNames(Pending(seen[i + 1])) = DeployedNames(Pending(seen[i]))

Unmatched(trigger, e) ==
    CASE trigger.kind = "Pr" ->
            e.kind \notin {"PullRequestCreate", "PullRequestUpdate", "PullRequestComplete"}
      [] trigger.kind = "Merge" ->
            \/ e.kind # "Merge"
            \/ ~is_match(trigger.to, e.to_branch)
            \/ trigger.from.some /\ ~is_match(trigger.from.value, e.from_branch)
      [] trigger.kind = "Tag" ->
            \/ e.kind # "TagPush"
            \/ ~is_match(IF trigger.pattern = semver THEN SEMVER_REGEX ELSE trigger.pattern,
                         e.tag)

\* C19: a trigger that does not match the event (a Merge trigger whose to matches but
\* whose from is set and does not, a Tag trigger whose pattern does not match the tag, a
\* trigger of another kind than the event) leaves the accumulated pipeline as it was, and
\* when no trigger of the application matches, event_to_pipeline returns none.
C19_UnmatchedTriggerChangesNothing ==
    /\ \A i \in 1..(Len(seen) - 1) :
          Unmatched(before.triggers[i], event) => seen[i + 1] = seen[i]
    /\ (event.kind # "None"
        /\ \A i \in 1..Len(before.triggers) : Unmatched(before.triggers[i], event))
       => ~produced.some /\ ~panicked /\ app = before

\* C19 witness: a merge into main from fix has met a Merge trigger that matched and
\* contributed, and then one whose to matches but whose from, feat, does not: the
\* pipeline returned is the one the first trigger left.
C19_Witness ==
    /\ event = Merge(main, fix, Sha)
    /\ Len(seen) = 3
    /\ before.triggers[2].kind = "Merge"
    /\ before.triggers[2].from = SomeOf(feat)
    /\ is_match(before.triggers[2].to, event.to_branch)
    /\ seen[2].some
    /\ Len(Pending(seen[2])) >= 2
    /\ seen[3] = seen[2]
    /\ produced = seen[2]

\* C20: PullRequestCreate on an application that has a Pr{deploy: true} trigger and no
\* default account fails loudly: the matcher panics, no pipeline is returned, and the
\* application's stage list is as it was.
C20_NoDefaultAccountFailsLoudly ==
    (/\ event.kind = "PullRequestCreate"
     /\ before.default_account = None
     /\ \E i \in 1..Len(before.triggers) : before.triggers[i] = TriggerPr(TRUE))
    => /\ panicked
       /\ ~produced.some
       /\ app.stages = before.stages

\* C20 witness: the matcher has panicked on a PullRequestCreate after an earlier
\* Pr{deploy: false} trigger had already accumulated a pipeline, on an application
\* that has stages.
C20_Witness ==
    /\ panicked
    /\ event.kind = "PullRequestCreate"
    /\ before.default_account = None
    /\ before.stages # <<>>
    /\ Len(seen) = 2
    /\ seen[2].some

----------------------------------------------------------------------------
(* C24 - C28: the protocol between the machine and its actions *)

\* the step is a tick that called is_done on the current action
CallsIsDone == op'.name = "tick" /\ op'.done \in {"true", "false", "err"}

\* C24: is_done is called on an action only after start has been invoked on that
\* action (the action is the one in flight), and get_result is called only in a tick
\* whose is_done call returned true.
C24_IsDoneOnlyAfterStart ==
    [][/\ CallsIsDone => in_flight = <<current_action>>
       /\ (op'.name = "tick" /\ op'.res # None) => op'.done = "true"]_vars

\* C25: after a tick whose start of the newly dispatched action failed, no tick calls
\* is_done on that action, whose start has not succeeded.
C25_FailedStartIsNotPolled ==
    [][(op.name = "tick" /\ op.done = "true" /\ op.out = "Err")
       => ~(CallsIsDone /\ op'.arg = op.ret)]_vars

\* C26: when is_done returns an error, the tick returns the error and leaves the
\* machine as it was: the same current action, the same pending queue, the same
\* completed history and results, the same recommended wait.
C26_IsDoneErrorLeavesMachineUnchanged ==
    [][(op'.name = "tick" /\ op'.done = "err")
       => /\ op'.out = "Err"
          /\ current_action' = current_action
          /\ pipeline' = pipeline
          /\ recommended_wait' = recommended_wait]_vars

\* C26 witness: is_done has just failed on a machine that holds a current action and
\* a pending action and whose wait has already grown beyond the starting wait.
C26_Witness ==
    /\ op.name = "tick"
    /\ op.done = "err"
    /\ current_action # None
    /\ pipeline.pending_actions # <<>>
    /\ recommended_wait > START_WAIT_TIME

\* C27: the outcome of a tick reports terminal exactly when the machine has no current
\* action after the tick, where reporting terminal is the value Ok(true) that a tick
\* on a machine without a current action returns.
C27_TerminalIffNoCurrent ==
    [][(op'.name = "tick" /\ op'.out \in {"Ok(true)", "Ok(false)"})
       => (op'.out = "Ok(true)" <=> current_action' = None)]_vars

\* C28: when the current action finishes with Failed and pending actions are
\* cancelled, the history gains an entry for the failed action with result Failed, at
\* a smaller index than every Canceled entry of that cancellation.
C28_FailedPrecedesCanceled ==
    [][(DoneTick /\ op'.res = Failed /\ pipeline.pending_actions # <<>>)
       => LET gained == Appended(pipeline, pipeline')
          IN  \E i \in 1..Len(gained) :
                 /\ gained[i] = <<current_action, Failed>>
                 /\ \A j \in 1..Len(gained) : gained[j][2] = Canceled => i < j]_vars

----------------------------------------------------------------------------
(* C30 *)

\* C30: every Build the matcher enqueues carries the event's commit sha in its sha
\* field and the event's repository in its repo field.
C30_BuildCarriesShaAndRepo ==
    \A i \in 1..Len(Pending(produced)) :
       Pending(produced)[i].kind = "Build"
          => /\ Pending(produced)[i].sha = event.sha
             /\ Pending(produced)[i].repo = Repo

----------------------------------------------------------------------------
(* The variables of Spec and MatcherSpec while another specification runs *)

RunnerIdle(ph) ==
    /\ pipeline = empty
    /\ current_action = None
    /\ recommended_wait = START_WAIT_TIME
    /\ phase = ph
    /\ op = Call("empty", None, None, None)
    /\ fifo = TRUE
    /\ recorded = <<>>
    /\ dispatched = <<>>
    /\ started = <<>>
    /\ ever = [a \in Actions |-> 0]
    /\ injected = 0
    /\ in_flight = <<>>

MatcherIdle ==
    /\ app = Application("org", "app", None, <<>>, <<>>)
    /\ event = NoEvent
    /\ produced = NoneOf(empty)
    /\ panicked = FALSE
    /\ seen = <<>>
    /\ before = app

runner_vars == <<pipeline, phase, op, fifo, recorded, machine_vars>>

----------------------------------------------------------------------------
(* cloud-conveyor-github: the interpreter of GitHub webhook payloads *)

MaxPrNumber == 3

\* struct BranchData { sha, ref }
BranchData(sha, git_ref) == [sha |-> sha, git_ref |-> git_ref]

NoBranch == BranchData("", "")

\* EventType::Pr(PullRequestPayload { pull_request: { number, merged, head, base }, action })
Pr(action, number, merged, head, base) ==
    [type |-> "Pr", action |-> action, number |-> number, merged |-> merged,
     head |-> head, base |-> base, tag_name |-> ""]

\* EventType::Release(ReleasePayload { action, release: { tag_name } })
Release(action, tag_name) ==
    [type |-> "Release", action |-> action, number |-> 0, merged |-> FALSE,
     head |-> NoBranch, base |-> NoBranch, tag_name |-> tag_name]

\* the VcsEvent variants as the interpreter builds them
VcsTagPush(tag) == [kind |-> "TagPush", tag |-> tag]
VcsPullRequestCreate(number, sha, source_branch) ==
    [kind |-> "PullRequestCreate", number |-> number, sha |-> sha,
     source_branch |-> source_branch]
VcsPullRequestUpdate(number, sha, source_branch) ==
    [kind |-> "PullRequestUpdate", number |-> number, sha |-> sha,
     source_branch |-> source_branch]
VcsPullRequestComplete(merged, number) ==
    [kind |-> "PullRequestComplete", merged |-> merged, number |-> number]
VcsMerge(to_branch, from_branch, sha) ==
    [kind |-> "Merge", to_branch |-> to_branch, from_branch |-> from_branch, sha |-> sha]

closed_events_merge_first(pr) ==
    LET pr_closed == VcsPullRequestComplete(pr.merged, pr.number)
    IN  IF pr.merged
        THEN <<VcsMerge(pr.head.git_ref, pr.base.git_ref, pr.head.sha), pr_closed>>
        ELSE <<pr_closed>>

\* the "closed" arm: the completion, followed by a merge if the request was merged
closed_events(pr) ==
    LET pr_closed == VcsPullRequestComplete(pr.merged, pr.number)
    IN  IF pr.merged
        THEN <<pr_closed, VcsMerge(pr.base.git_ref, pr.head.git_ref, pr.head.sha)>>
        ELSE <<pr_closed>>

\* fn get_vcs_event(&self, payload: &EventType) -> Vec<VcsEvent>
get_vcs_event(p) ==
    IF p.type = "Release"
    THEN IF p.action = "published" THEN <<VcsTagPush(p.tag_name)>> ELSE <<>>
    ELSE IF p.action \in {"opened", "reopened"}
         THEN <<VcsPullRequestCreate(p.number, p.head.sha, p.head.git_ref)>>
    ELSE IF p.action = "synchronize"
         THEN <<VcsPullRequestUpdate(p.number, p.head.sha, p.head.git_ref)>>
    ELSE IF p.action = "closed" THEN closed_events(p)
    ELSE <<>>

\* the payloads GitHub sends: a pull request is merged only when it is closed
Payloads ==
    {Pr(action, number, merged, BranchData(sha, from), BranchData("000", to)) :
        action \in {"opened", "reopened", "synchronize", "closed", "edited"},
        number \in 1..MaxPrNumber, merged \in BOOLEAN,
        sha \in {"abc", "def"}, from \in {"feat", "fix"}, to \in {"main", "dev"}}
    \cup {Release(action, tag) : action \in {"published", "created"},
                                  tag \in {"v1", "1.2.3"}}

GithubInit ==
    /\ RunnerIdle("github")
    /\ MatcherIdle
    /\ AuxIdle

\* Github::get_vcs_event(&payload)
GetVcsEvent(p) ==
    /\ phase = "github"
    /\ p.merged => p.action = "closed"
    /\ payload' = p
    /\ vcs_events' = get_vcs_event(p)
    /\ UNCHANGED <<runner_vars, matcher_vars, fleet_vars, perform_vars, backoff_vars,
                   equality_vars, orchestration_vars, live_vars>>

GithubNext == \E p \in Payloads : GetVcsEvent(p)

GithubSpec == GithubInit /\ [][GithubNext]_vars

----------------------------------------------------------------------------
(* recommended_wait at its real width: a u64 kept as four 16-bit limbs, the *)
(* least significant first                                                  *)

LimbBase == 65536

LimbCount == 4

\* a number below LimbBase as a u64
u64(n) == [i \in 1..LimbCount |-> IF i = 1 THEN n ELSE 0]

\* the carry into limb i when w is multiplied by 3
RECURSIVE carry3(_, _)
carry3(w, i) == IF i = 1 THEN 0 ELSE (w[i - 1] * 3 + carry3(w, i - 1)) \div LimbBase

\* w * 3 does not fit in a u64
overflows3(w) == carry3(w, LimbCount + 1) > 0

\* w * 3 modulo 2^64
wrapping_mul3(w) == [i \in 1..LimbCount |-> (w[i] * 3 + carry3(w, i)) % LimbBase]

\* w / 2
div2(w) ==
    [i \in 1..LimbCount |->
        (w[i] \div 2) + (IF i < LimbCount THEN (w[i + 1] % 2) * (LimbBase \div 2) ELSE 0)]

\* self.recommended_wait * 3 / 2 when the product fits, and in a build without
\* overflow checks
next_wait_u64(w) == div2(wrapping_mul3(w))

BackoffInit ==
    /\ RunnerIdle("backoff")
    /\ MatcherIdle
    /\ EqualityIdle
    /\ OrchestrationIdle
    /\ LiveIdle
    /\ GithubIdle
    /\ FleetIdle
    /\ PerformIdle
    /\ wait_u64 = u64(START_WAIT_TIME)
    /\ overflow = "no"

\* a tick in which the current action is not done. When the product does not fit, a
\* build with overflow checks panics at the multiplication and a build without them
\* wraps.
BackoffNotDone ==
    /\ phase = "backoff"
    /\ overflow = "no"
    /\ IF overflows3(wait_u64)
       THEN \/ overflow' = "panic" /\ wait_u64' = wait_u64
            \/ overflow' = "wrap" /\ wait_u64' = next_wait_u64(wait_u64)
       ELSE overflow' = "no" /\ wait_u64' = next_wait_u64(wait_u64)
    /\ UNCHANGED <<runner_vars, matcher_vars, github_vars, fleet_vars, perform_vars,
                   equality_vars, orchestration_vars, live_vars>>

\* a tick that dispatches the next action resets the wait
BackoffDispatch ==
    /\ phase = "backoff"
    /\ overflow = "no"
    /\ wait_u64' = u64(START_WAIT_TIME)
    /\ UNCHANGED overflow
    /\ UNCHANGED <<runner_vars, matcher_vars, github_vars, fleet_vars, perform_vars,
                   equality_vars, orchestration_vars, live_vars>>

BackoffNext == BackoffNotDone \/ BackoffDispatch

BackoffSpec == BackoffInit /\ [][BackoffNext]_vars

\* C29: recommended_wait is clamped to a fixed maximum, so that computing
\* recommended_wait * 3 never overflows a u64.
C29_WaitNeverOverflows == overflow = "no"

----------------------------------------------------------------------------
(* Build, Deploy and Teardown as implementations of Perform: the action, its *)
(* private result slot and the substrate (builder, infrastructure, teardown) *)
(* it polls                                                                  *)

MaxPolls == 3

JobKinds == {"Build", "Deploy", "Teardown"}

\* Build::new, Deploy::new, Teardown::new: every constructor sets result: None
JobNew(kind) == [kind |-> kind, result |-> None]

\* the status with which the substrate reports success:
\* BuildStatus::Succeeded, DeployStatus::Complete, TeardownStatus::Complete
succeeded(kind) == IF kind = "Build" THEN "Succeeded" ELSE "Complete"

\* BuildStatus, DeployStatus, TeardownStatus
Statuses(kind) == {succeeded(kind), "Failed", "Pending"}

\* fn start(&mut self, ctx): Ok or the substrate's error; the action is not changed
start(j, ok) == [job |-> j, ret |-> IF ok THEN "Ok" ELSE "Err"]

\* fn is_done(&mut self, ctx): report is what ctx.<substrate>.check_* returned, a
\* status or "Err". The status is matched and dropped; the action is not changed.
is_done(j, report) ==
    [job |-> j,
     ret |-> IF report = "Err" THEN "Err"
             ELSE IF report = "Pending" THEN "Ok(false)" ELSE "Ok(true)"]

\* fn get_result(&self, ctx): self.result.as_ref().unwrap() panics on None
get_result(j) ==
    IF j.result = None THEN "panic"
    ELSE IF j.result = succeeded(j.kind) THEN Success ELSE Failed

PerformCall(name, ret, observed, polls) ==
    [name |-> name, ret |-> ret, observed |-> observed, polls |-> polls]

PerformInit ==
    /\ RunnerIdle("perform")
    /\ MatcherIdle
    /\ EqualityIdle
    /\ OrchestrationIdle
    /\ LiveIdle
    /\ GithubIdle
    /\ FleetIdle
    /\ BackoffIdle
    /\ \E kind \in JobKinds : job = JobNew(kind)
    /\ remote = "NotStarted"
    /\ call = PerformCall("new", "-", None, 0)

\* the machine starts an action it dispatches, once; the substrate accepts or refuses
PerformStart(ok) ==
    /\ phase = "perform"
    /\ call.name = "new"
    /\ \E r \in {start(job, ok)} :
          /\ job' = r.job
          /\ call' = PerformCall("start", r.ret, None, 0)
    /\ remote' = IF ok THEN "Pending" ELSE remote
    /\ UNCHANGED <<runner_vars, matcher_vars, github_vars, fleet_vars, backoff_vars,
                   equality_vars, orchestration_vars, live_vars>>

\* the substrate finishes the work it was given
SubstrateFinishes(status) ==
    /\ phase = "perform"
    /\ remote = "Pending"
    /\ status \in Statuses(job.kind) \ {"Pending"}
    /\ remote' = status
    /\ UNCHANGED <<job, call>>
    /\ UNCHANGED <<runner_vars, matcher_vars, github_vars, fleet_vars, backoff_vars,
                   equality_vars, orchestration_vars, live_vars>>

\* a tick polls the current action, started or not (the action taken by
\* StateMachine::new is never started). The substrate reports the status of the
\* work, or an error; what it reports for work it was never given is unspecified.
PerformIsDone(report) ==
    /\ phase = "perform"
    /\ call.name \in {"new", "start", "is_done"}
    /\ call.ret # "Ok(true)"
    /\ call.polls < MaxPolls
    /\ report \in (IF remote = "NotStarted" THEN Statuses(job.kind) ELSE {remote})
                     \cup {"Err"}
    /\ \E r \in {is_done(job, report)} :
          /\ job' = r.job
          /\ call' = PerformCall("is_done", r.ret, report, call.polls + 1)
    /\ UNCHANGED remote
    /\ UNCHANGED <<runner_vars, matcher_vars, github_vars, fleet_vars, backoff_vars,
                   equality_vars, orchestration_vars, live_vars>>

\* the tick in which is_done returned true goes on to get_result
PerformGetResult ==
    /\ phase = "perform"
    /\ call.name = "is_done"
    /\ call.ret = "Ok(true)"
    /\ call' = PerformCall("get_result", get_result(job), call.observed, call.polls)
    /\ UNCHANGED <<job, remote>>
    /\ UNCHANGED <<runner_vars, matcher_vars, github_vars, fleet_vars, backoff_vars,
                   equality_vars, orchestration_vars, live_vars>>

PerformNext ==
    \/ \E ok \in BOOLEAN : PerformStart(ok)
    \/ \E status \in {"Succeeded", "Complete", "Failed"} : SubstrateFinishes(status)
    \/ \E report \in {"Succeeded", "Complete", "Failed", "Pending", "Err"} :
          PerformIsDone(report)
    \/ PerformGetResult

PerformSpec == PerformInit /\ [][PerformNext]_vars

\* C23: when get_result is called on a Build, Deploy or Teardown, after is_done
\* returned true, the result slot holds the status is_done observed and get_result
\* yields a defined ActionResult.
C23_GetResultIsDefined ==
    call.name = "get_result"
       => /\ job.result = call.observed
          /\ call.ret \in ActionResult

----------------------------------------------------------------------------
(* Two state machines side by side, each constructed from its own pipeline *)

MaxFleetPending == 2

MaxFleetWait == 15

MachineIds == {1, 2}

FleetActions == {"A", "B"}

\* StateMachine::new(pipeline): the machine takes the pipeline by value
new(acc) ==
    LET popped == pop_next_action(acc)
    IN  [pipeline |-> popped.pipeline, current_action |-> popped.ret,
         recommended_wait |-> START_WAIT_TIME]

\* what the current action of a ticked machine answers: done is "err", "false" or
\* "true", and for "true" the result, the new work and whether the next start succeeds
Answer(done, result, work, start_ok) ==
    [done |-> done, result |-> result, work |-> work, start_ok |-> start_ok]

machine_after_cancel_with_current(m) ==
    [m EXCEPT !.pipeline = complete_action(cancel(m.pipeline), m.current_action, Canceled),
              !.current_action = None]

\* self.pipeline.cancel() on the machine m: the call reaches the pipeline field alone
machine_after_cancel(m) == [m EXCEPT !.pipeline = cancel(m.pipeline)]

\* tick_machine_state(&mut self, context) on the machine m, as a function from the
\* machine and the answers of its current action to the machine afterwards
tick_machine_state(m, o) ==
    IF m.current_action = None THEN m
    ELSE IF o.done = "err" THEN m
    ELSE IF o.done = "false"
         THEN [m EXCEPT !.recommended_wait = next_wait(m.recommended_wait)]
    ELSE LET canceled == IF should_cancel_pending_actions(o.result)
                         THEN machine_after_cancel(m).pipeline ELSE m.pipeline
             pushed == push_new_work(canceled, o.work)
             popped == pop_next_action(pushed)
         IN  [pipeline |-> popped.pipeline,
              current_action |-> popped.ret,
              recommended_wait |-> IF popped.ret # None
                                   THEN START_WAIT_TIME ELSE m.recommended_wait]

fleet_after_tick_shared_cancel(ms, i, o) ==
    [j \in MachineIds |->
        IF j = i THEN tick_machine_state(ms[i], o)
        ELSE IF o.done = "true" /\ should_cancel_pending_actions(o.result)
             THEN [ms[j] EXCEPT !.pipeline = cancel(ms[j].pipeline)]
             ELSE ms[j]]

\* the machines after machine i has been ticked: &mut self reaches the fields of
\* machine i only, and its pipeline is its own
fleet_after_tick(ms, i, o) == [ms EXCEPT ![i] = tick_machine_state(ms[i], o)]

\* the pipelines the machines are constructed from
FleetPipelines ==
    {[pending_actions |-> s, completed_actions |-> <<>>, action_results |-> <<>>] :
        s \in {t \in SeqsUpTo(FleetActions, MaxFleetPending) : NoDuplicates(t)}}

FleetInit ==
    /\ RunnerIdle("fleet")
    /\ MatcherIdle
    /\ EqualityIdle
    /\ OrchestrationIdle
    /\ LiveIdle
    /\ GithubIdle
    /\ PerformIdle
    /\ BackoffIdle
    /\ \E p1 \in FleetPipelines, p2 \in FleetPipelines :
          machines = [i \in MachineIds |-> IF i = 1 THEN new(p1) ELSE new(p2)]
    /\ last_tick = [machine |-> 0, done |-> "-", result |-> None]

\* machine i is ticked and its current action answers o
FleetTick(i, o) ==
    /\ phase = "fleet"
    /\ machines[i].recommended_wait <= MaxFleetWait
    /\ o.done # "true" => (o.result = None /\ o.work = <<>> /\ o.start_ok)
    /\ o.done = "true" => o.result # None
    /\ Len(o.work) + Len(machines[i].pipeline.pending_actions)
          + Len(machines[i].pipeline.completed_actions) <= MaxFleetPending
    /\ machines' = fleet_after_tick(machines, i, o)
    /\ last_tick' = [machine |-> i,
                     done |-> IF machines[i].current_action = None THEN "-" ELSE o.done,
                     result |-> IF machines[i].current_action = None
                                THEN None ELSE o.result]
    /\ UNCHANGED <<runner_vars, matcher_vars, github_vars, perform_vars, backoff_vars,
                   equality_vars, orchestration_vars, live_vars>>

FleetNext ==
    \E i \in MachineIds, done \in {"err", "false", "true"},
       result \in ActionResult \cup {None},
       work \in SeqsUpTo(FleetActions, MaxNewWork), start_ok \in BOOLEAN :
       FleetTick(i, Answer(done, result, work, start_ok))

FleetSpec == FleetInit /\ [][FleetNext]_vars

\* C21: a Failed result in one machine cancels only that machine's pipeline: the tick
\* of machine i in which its current action finishes with Failed leaves the pending
\* queue, the current action, the completed history and the recommended wait of every
\* other machine as they were.
C21_FailureStaysInItsMachine ==
    [][\A i \in MachineIds :
          (last_tick'.machine = i /\ last_tick'.done = "true" /\ last_tick'.result = Failed)
             => \A j \in MachineIds \ {i} : machines'[j] = machines[j]]_vars

\* C21 witness: machine 1 has just cancelled its pending actions after a Failed result
\* while machine 2 holds a current action, a pending action and a wait that has grown.
C21_Witness ==
    /\ last_tick.machine = 1
    /\ last_tick.result = Failed
    /\ machines[1].pipeline.action_results # <<>>
    /\ machines[2].current_action # None
    /\ machines[2].pipeline.pending_actions # <<>>
    /\ machines[2].recommended_wait > START_WAIT_TIME

----------------------------------------------------------------------------
(* C31 *)

----------------------------------------------------------------------------
(* Equality of actions: #[derive(PartialEq)] on Build, Deploy, Teardown and *)
(* Approval, reached through PartialEq for Box<dyn Perform>                *)

\* the action a with its private field result: Option<...Status> holding r
Performer(a, r) ==
    [f \in DOMAIN a \cup {"result"} |-> IF f = "result" THEN r ELSE a[f]]

\* the actions compared: a Build, Deploy or Teardown as its constructor makes it
\* (result: None) or as serde deserializes it (any result); an Approval has no slot
Performers ==
    {Performer(BuildNew(sha, Repo), r) :
        sha \in {"abc", "def"}, r \in Statuses("Build") \cup {None}}
    \cup {Performer(DeployNew(Stage("dev", None, "other"), Repo, sha), r) :
        sha \in {"abc", "def"}, r \in Statuses("Deploy") \cup {None}}
    \cup {Performer(TeardownNew(Stage("dev", None, "other"), Repo), r) :
        r \in Statuses("Teardown") \cup {None}}
    \cup {Performer(Approval("Slack", "prod", "abc", <<"org", "app">>), None)}

EqualityInit ==
    /\ RunnerIdle("equality")
    /\ MatcherIdle
    /\ GithubIdle
    /\ FleetIdle
    /\ PerformIdle
    /\ BackoffIdle
    /\ EqualityIdle
    /\ OrchestrationIdle
    /\ LiveIdle

\* a == b, and Pipeline::empty().add_action(a).add_action(b)
Compare(a, b) ==
    /\ phase = "equality"
    /\ left' = a
    /\ right' = b
    /\ equal' = box_eq(a, b)
    /\ deduped' = add_action(add_action(empty, a), b).pending_actions
    /\ UNCHANGED <<runner_vars, matcher_vars, github_vars, fleet_vars, perform_vars,
                   backoff_vars, orchestration_vars, live_vars>>

EqualityNext == \E a \in Performers, b \in Performers : Compare(a, b)

EqualitySpec == EqualityInit /\ [][EqualityNext]_vars

\* the two actions are the same variant and agree on every field but the result slot
SameButResult(a, b) == [a EXCEPT !.result = None] = [b EXCEPT !.result = None]

\* C32: two actions are equal exactly when they are the same variant and all their
\* fields other than the result slot are equal, and add_action then keeps one of them.
C32_EqualityIgnoresResult ==
    left.kind # "None"
       => /\ equal <=> SameButResult(left, right)
          /\ SameButResult(left, right) => Len(deduped) = 1

----------------------------------------------------------------------------
(* C33 *)

----------------------------------------------------------------------------
(* C34 *)

\* C34: the history is append-only: whatever is done to the pipeline, by one of its
\* own operations or by a tick of the machine that owns it, the completed actions and
\* the results it held before are a prefix of the ones it holds afterwards.
C34_HistoryAppendOnly == [][KeepsHistory(pipeline, pipeline')]_vars

\* C34 witness: a cancel has appended a Canceled entry behind an entry recorded
\* earlier by complete_action, which is still the first one.
C34_Witness ==
    /\ op.name = "cancel"
    /\ Len(pipeline.action_results) = 2
    /\ pipeline.action_results[1] # Canceled
    /\ pipeline.action_results[2] = Canceled
    /\ <<pipeline.completed_actions[1], pipeline.action_results[1]>> = recorded[1]

----------------------------------------------------------------------------
(* The default orchestration of a webhook request: interpret_webhook_payload *)
(* and handle_web_hook_event                                                 *)

MaxIntermediaries == 2

\* what parse_to_intermediary returns for one event of a request: get_repo and
\* get_vcs_event read the repository and the event, if any, off it
Intermediary(repo, e) == [repo |-> repo, event |-> e]

OtherRepo == "git@github.com:org/other.git"

\* the application the runtime is meant to hold for Repo
KnownApplication == Application("org", "app", "default", <<>>, <<TriggerPr(FALSE)>>)

\* RuntimeContext::load_application_from_repo: the body is unimplemented!(), which
\* panics whatever the repository
load_application_from_repo(repo) == [panicked |-> TRUE, value |-> NoneOf(KnownApplication)]

\* WebhookEvent { repo, app, event }
WebhookEvent(e, a, repo) == [event |-> e, app |-> a, repo |-> repo]

\* the loop of interpret_webhook_payload over the intermediaries, result being the
\* records pushed so far
RECURSIVE interpret_webhook_payload(_, _)
interpret_webhook_payload(inters, result) ==
    IF inters = <<>> THEN [panicked |-> FALSE, records |-> result]
    ELSE LET inter == Head(inters)
             maybe_app == load_application_from_repo(inter.repo)
             maybe_vcs_event == inter.event
         IN  IF maybe_app.panicked THEN [panicked |-> TRUE, records |-> result]
             ELSE IF maybe_app.value.some /\ maybe_vcs_event.some
                  THEN interpret_webhook_payload(Tail(inters),
                           Append(result, WebhookEvent(maybe_vcs_event.value,
                                                       maybe_app.value.value, inter.repo)))
                  ELSE interpret_webhook_payload(Tail(inters), result)

\* .iter_mut().map(event_to_pipeline).filter_map(|o| o).collect()
RECURSIVE pipelines_of(_)
pipelines_of(recs) ==
    IF recs = <<>> THEN [panicked |-> FALSE, pipelines |-> <<>>]
    ELSE LET m == event_to_pipeline(Head(recs).app, Head(recs).event, Head(recs).repo)
             rest == pipelines_of(Tail(recs))
         IN  IF m.panicked \/ rest.panicked THEN [panicked |-> TRUE, pipelines |-> <<>>]
             ELSE [panicked |-> FALSE,
                   pipelines |-> IF m.result.some THEN <<m.result.value>> \o rest.pipelines
                                 ELSE rest.pipelines]

\* handle_web_hook_event(interpreter, runtime, request)
handle_web_hook_event(inters) ==
    LET interpreted == interpret_webhook_payload(inters, <<>>)
        made == pipelines_of(interpreted.records)
    IN  IF interpreted.panicked
        THEN [panicked |-> TRUE, records |-> <<>>, pipelines |-> <<>>]
        ELSE [panicked |-> made.panicked, records |-> interpreted.records,
              pipelines |-> made.pipelines]

\* the intermediaries a request is parsed into
Intermediaries ==
    {Intermediary(repo, e) :
        repo \in {Repo, OtherRepo},
        e \in {NoneOf(NoEvent)} \cup
              {SomeOf(x) : x \in {Merge(main, feat, Sha), TagPush(<<"v", "1">>, Sha),
                                  PullRequestCreate(1, Sha),
                                  PullRequestComplete(1, TRUE)}}}

OrchestrationInit ==
    /\ RunnerIdle("orchestration")
    /\ MatcherIdle
    /\ GithubIdle
    /\ FleetIdle
    /\ PerformIdle
    /\ BackoffIdle
    /\ EqualityIdle
    /\ OrchestrationIdle
    /\ LiveIdle

\* one webhook request arrives and is handled
HandleWebHookEvent(inters) ==
    /\ phase = "orchestration"
    /\ ~crashed
    /\ request' = inters
    /\ \E h \in {handle_web_hook_event(inters)} :
          /\ records' = h.records
          /\ pipelines' = h.pipelines
          /\ crashed' = h.panicked
    /\ UNCHANGED <<runner_vars, matcher_vars, github_vars, fleet_vars, perform_vars,
                   backoff_vars, equality_vars, live_vars>>

OrchestrationNext ==
    \E inters \in SeqsUpTo(Intermediaries, MaxIntermediaries) : HandleWebHookEvent(inters)

OrchestrationSpec == OrchestrationInit /\ [][OrchestrationNext]_vars

\* the intermediaries of the request that come from the repository of the known
\* application and carry an event
Emittable ==
    LET known(inter) == inter.repo = Repo /\ inter.event.some
    IN  SelectSeq(request, known)

\* C35: handling a request emits one record, with the event and the repository, for
\* each intermediary whose repository is that of a known application and that carries
\* an event, and for no other; and it returns at most one pipeline per record.
C35_RecordsForKnownApplications ==
    /\ ~crashed
    /\ Len(records) = Len(Emittable)
    /\ \A i \in 1..Len(records) :
          /\ records[i].event = Emittable[i].event.value
          /\ records[i].repo = Emittable[i].repo
    /\ Len(pipelines) <= Len(records)

----------------------------------------------------------------------------
(* C36 *)

\* C36: a state machine is never idle with work pending: whenever it has no current
\* action, after new and after every tick, its pipeline's pending queue is empty.
C36_NeverIdleWithPending ==
    (phase = "machine" /\ current_action = None) => pipeline.pending_actions = <<>>

\* C36 witness: a machine that was given two actions has dispatched both, the tick
\* that finished the second found nothing to pop, and the machine has no current
\* action.
C36_Witness ==
    /\ phase = "machine"
    /\ op.name = "tick"
    /\ op.done = "true"
    /\ op.out = "Ok(false)"
    /\ Len(dispatched) = 2
    /\ current_action = None

----------------------------------------------------------------------------
(* C37 *)

\* C37: once an action has yielded Failed the machine starts no further action of the
\* pipeline: the tick in which the current action finishes with Failed invokes no
\* start, not even on the actions that action's get_new_work returns, and leaves the
\* machine without a current action; and a machine without a current action starts
\* nothing.
C37_NoStartAfterFailed ==
    [][/\ (DoneTick /\ op'.res = Failed)
             => (started' = started /\ current_action' = None)
       /\ (op'.name = "tick" /\ current_action = None) => started' = started]_vars

----------------------------------------------------------------------------
(* The machine when nothing fails: no is_done call and no start returns an   *)
(* error. A tick on an action that is done is bound to happen, but only for  *)
(* an action on which start was invoked: nothing is assumed of the substrate *)
(* for an action it was never given.                                         *)

\* a tick in which is_done returns true and the start of the next action succeeds
LiveTickDone ==
    \E result \in ActionResult, work \in SeqsUpTo(Actions, MaxNewWork) :
       TickDone(result, work, TRUE)

\* a tick in which is_done returns false, as often as the action likes: beyond MaxWait
\* the growth of the wait is no longer tracked
LiveTickNotDone ==
    /\ phase = "machine"
    /\ current_action # None
    /\ recommended_wait' = IF recommended_wait <= MaxWait
                           THEN next_wait(recommended_wait) ELSE recommended_wait
    /\ op' = Op("tick", current_action, None, current_action, "Ok(false)", "false",
                <<>>, <<>>)
    /\ poll_parity' = 1 - poll_parity
    /\ current_action' = current_after_not_done(current_action)
    /\ UNCHANGED <<pipeline, phase, fifo, recorded,
                   dispatched, started, ever, injected, in_flight>>
    /\ UNCHANGED <<matcher_vars, github_vars, fleet_vars, perform_vars, backoff_vars,
                   equality_vars, orchestration_vars>>

\* the machine is ticked
LiveTick == TickTerminal \/ LiveTickNotDone \/ LiveTickDone

\* the current action is one on which start has been invoked
CurrentStarted == in_flight = <<current_action>>

LiveNext ==
    \/ \E a \in Actions : AddAction(a)
    \/ \E a \in Actions : AddImmediateAction(a)
    \/ PopNextAction
    \/ \E a \in Actions, r \in ActionResult : CompleteAction(a, r)
    \/ Cancel
    \/ StateMachineNew
    \/ TickTerminal
    \/ LiveTickNotDone
    \/ LiveTickDone

\* the machine is ticked again and again, and a started action is eventually done
LiveSpec ==
    /\ Init
    /\ [][LiveNext]_vars
    /\ WF_vars(phase = "machine" /\ LiveTick)
    /\ WF_vars(phase = "machine" /\ CurrentStarted /\ LiveTickDone)

\* C38: when no call fails, every started action is eventually done and get_new_work
\* returns finitely many actions, a state machine eventually reaches the terminal
\* state (no current action, nothing pending) and stays there.
C38_EventuallyTerminal == [](phase = "machine" => <>[]Terminal)

----------------------------------------------------------------------------
(* The stages the trigger matcher appends *)

\* the positions of the stages named pr-N that the matcher appended (the stages of
\* the configuration are not counted)
PrStagePositions(a, number) ==
    {i \in 1..Len(a.stages) :
        is_for_pr(a.stages[i], number) /\ a.stages[i] \notin ConfigStages}

\* C39: whatever events the trigger matcher has processed, it has appended at most
\* one stage named pr-N to the application for each pull request number N.
C39_OnePrStagePerNumber ==
    phase = "matcher"
        => \A number \in PrNumbers : Cardinality(PrStagePositions(app, number)) <= 1

----------------------------------------------------------------------------
(* The tick that finds the current action not done *)

\* C40: a tick in which the current action is not done changes only the recommended
\* wait: the current action stays current, the pending queue, the completed history
\* and the results are as before, no start is invoked, and neither get_result nor
\* get_new_work is called.
C40_NotDoneTickChangesOnlyWait ==
    [][(op'.name = "tick" /\ op'.done = "false")
       => /\ current_action' = current_action
          /\ current_action' # None
          /\ pipeline' = pipeline
          /\ started' = started
          /\ dispatched' = dispatched
          /\ in_flight' = in_flight
          /\ op'.res = None
          /\ op'.work = <<>>
          /\ injected' = injected]_vars

\* C40 witness: a not-done tick on a machine that has already finished an action,
\* started its current one and still holds a pending action.
C40_Witness ==
    /\ op.name = "tick"
    /\ op.done = "false"
    /\ current_action # None
    /\ Len(dispatched) >= 2
    /\ in_flight = <<current_action>>
    /\ started # <<>>
    /\ pipeline.pending_actions # <<>>

====
